---- MODULE Spec2Model ----
(***************************************************************************)
(* A model of btsync_rewind: the path/timestamp parser, the version        *)
(* resolver and the directory projector of core.py, the FUSE adapter of    *)
(* btsync_rewind.py, and the disk they read (built the way core_test.py    *)
(* builds it).                                                             *)
(*                                                                         *)
(* Strings are sequences of one-character strings, so that prefix tests,   *)
(* the regular expressions and the path splitting are computed character   *)
(* by character as the code computes them.                                 *)
(***************************************************************************)
EXTENDS Integers, Sequences, FiniteSets, TLC

\* ------------------------------------------------------------------ bounds

\* Modification times and query timestamps range over 0..MaxTime.
MaxTime == 2

\* At most this many regular files and directories exist in the modelled
\* directory, live and archive mirror together.
MaxEntries == 3

\* ------------------------------------------------------- names on the disk

\* 'f.t', a file name with an extension.
f_t == <<"f", ".", "t">>
\* 'f.t.1', the name of an archived version of 'f.t' with a version counter,
\* and a name a file of its own may carry as well.
f_t_1 == <<"f", ".", "t", ".", "1">>
\* 'fxt', an unrelated file.
fxt == <<"f", "x", "t">>

\* The file names that may appear in the modelled directory.
Names == {f_t, f_t_1, fxt}

\* The name of the live tree's metadata directory ('.sync/Archive' is under it).
SyncDir == <<".", "s", "y", "n", "c">>

\* The relative directories the model can look at: the root ('') and 'd'.
RelDirs == {<<>>, <<"d">>}

Digits == {"0", "1", "2", "3", "4", "5", "6", "7", "8", "9"}

Times == 0 .. MaxTime

\* ------------------------------------------------------------------- state

VARIABLES
    root,      \* what root_dir is on disk: "missing", "file" or "dir"
    reldir,    \* the relative directory whose two mirrors are modelled
    liveDir,   \* TRUE when root/reldir is a directory
    archDir,   \* TRUE when root/.sync/Archive/reldir is a directory
    archRoot,  \* TRUE when root/.sync/Archive is a directory
    live,      \* name -> entry of root/reldir
    arch,      \* name -> entry of root/.sync/Archive/reldir
    call,      \* the last call made on this disk state and its arguments
    ret,       \* what that call returned or raised
    handles    \* the file handles the adapter has open, with their flags

vars == <<root, reldir, liveDir, archDir, archRoot, live, arch, call, ret, handles>>

disk == <<root, reldir, liveDir, archDir, archRoot, live, arch>>

\* What the modelled directory holds under a name: nothing, a regular file
\* with its modification time, or a directory. A directory that is an entry
\* is as TestBase.create_file(t, <name>/x) makes it: it holds the one regular
\* file 'x', and mtime is the modification time of that file.
NoEntry == [kind |-> "none", mtime |-> 0]
DirEntry(t) == [kind |-> "dir", mtime |-> t]
FileEntry(t) == [kind |-> "file", mtime |-> t]

\* The name of the file a child directory holds, and the modification times
\* it is created with.
InnerName == <<"x">>
InnerTimes == {1}

\* A directory whose contents the state gives elsewhere: root/reldir and
\* root/.sync.
Directory == [kind |-> "dir", mtime |-> 0]

EmptyDir == [n \in Names |-> NoEntry]

NoCall == [op |-> "none", timestamp |-> 0, rel_path |-> <<>>, listing |-> <<>>,
           fuse_path |-> <<>>, flags |-> {}]
NoRet == [kind |-> "none", ts |-> 0, tree |-> "", name |-> <<>>, err |-> "",
          files |-> {}, dirs |-> {}]

\* What a call returns: a (boundary, path) pair, None, or an exception.
Found(ts, tree, name) ==
    [NoRet EXCEPT !.kind = "ok", !.ts = ts, !.tree = tree, !.name = name]
NotFound == [NoRet EXCEPT !.kind = "notfound"]
Raise(err) == [NoRet EXCEPT !.kind = "raise", !.err = err]

\* ------------------------------------------------------ string operations

startswith(s, c) == Len(s) > 0 /\ s[1] = c
endswith(s, c) == Len(s) > 0 /\ s[Len(s)] = c

\* Index of the last '/' of s, 0 when there is none.
LastSlash(s) ==
    LET at == {i \in 1 .. Len(s) : s[i] = "/"}
    IN  IF at = {} THEN 0 ELSE CHOOSE i \in at : \A j \in at : j <= i

\* os.path.basename: what follows the last '/'.
basename(p) == SubSeq(p, LastSlash(p) + 1, Len(p))

\* Strip the trailing '/' characters of s.
RECURSIVE rstripSlash(_)
rstripSlash(s) ==
    IF endswith(s, "/") THEN rstripSlash(SubSeq(s, 1, Len(s) - 1)) ELSE s

\* os.path.dirname: what precedes the last '/', without its trailing
\* slashes unless it consists of slashes only.
dirname(p) ==
    LET head == SubSeq(p, 1, LastSlash(p))
    IN  IF rstripSlash(head) = <<>> THEN head ELSE rstripSlash(head)

\* os.path.join of a relative directory and a name.
join(d, n) == IF d = <<>> THEN n ELSE d \o <<"/">> \o n

\* ------------------------------------------------------------- the parser

\* fuse_path.find(c, start): the first index >= start holding c, 0 if none
\* (indices from 1).
find(s, c, start) ==
    LET at == {i \in start .. Len(s) : s[i] = c}
    IN  IF at = {} THEN 0 ELSE CHOOSE i \in at : \A j \in at : i <= j

AllDigits(s) == \A i \in DOMAIN s : s[i] \in Digits

DigitValue(c) ==
    CASE c = "0" -> 0 [] c = "1" -> 1 [] c = "2" -> 2 [] c = "3" -> 3
      [] c = "4" -> 4 [] c = "5" -> 5 [] c = "6" -> 6 [] c = "7" -> 7
      [] c = "8" -> 8 [] c = "9" -> 9

\* The number a run of at most nine digits denotes; 0 for the empty run.
\* Longer runs are not numbers the model carries.
RECURSIVE Number(_)
Number(s) ==
    CASE s = <<>> -> 0
      [] Len(s) \in 1 .. 9 ->
             10 * Number(SubSeq(s, 1, Len(s) - 1)) + DigitValue(s[Len(s)])

\* The vertical tab (character 11), which has no escape and stands in the
\* string as itself.
VerticalTab == ""

\* The characters float() strips from both ends of its argument.
Whitespace == {" ", "\t", "\n", "\r", "\f", VerticalTab}

\* The positions of s that hold something other than the characters of S.
Outside(s, S) == {i \in DOMAIN s : s[i] \notin S}

Least(I) == CHOOSE i \in I : \A j \in I : i <= j

Greatest(I) == CHOOSE i \in I : \A j \in I : j <= i

\* str.strip as float() applies it: what lies between the first and the last
\* character that is not white space.
strip(s) ==
    IF Outside(s, Whitespace) = {} THEN <<>>
    ELSE SubSeq(s, Least(Outside(s, Whitespace)),
                Greatest(Outside(s, Whitespace)))

\* float() reads 'inf', 'infinity', 'nan' and the exponent mark in either
\* case.
lower(c) ==
    CASE c = "A" -> "a" [] c = "E" -> "e" [] c = "F" -> "f" [] c = "I" -> "i"
      [] c = "N" -> "n" [] c = "T" -> "t" [] c = "Y" -> "y" [] OTHER -> c

Lowered(s) == [i \in DOMAIN s |-> lower(s[i])]

\* A run of digits without its leading zeros, and without its trailing ones.
LStripZeros(s) ==
    IF Outside(s, {"0"}) = {} THEN <<>>
    ELSE SubSeq(s, Least(Outside(s, {"0"})), Len(s))

RStripZeros(s) ==
    IF Outside(s, {"0"}) = {} THEN <<>>
    ELSE SubSeq(s, 1, Greatest(Outside(s, {"0"})))

Zeros(n) == [i \in 1 .. n |-> "0"]

\* The digits of 2^1024 - 2^970, half way between the largest double and
\* 2^1024: a decimal at or above it is read as an infinity.
DoubleOverflow ==
    <<"1", "7", "9", "7", "6", "9", "3", "1", "3", "4", "8", "6",
      "2", "3", "1", "5", "8", "0", "7", "9", "3", "7", "2", "8",
      "9", "7", "1", "4", "0", "5", "3", "0", "3", "4", "1", "5",
      "0", "7", "9", "9", "3", "4", "1", "3", "2", "7", "1", "0",
      "0", "3", "7", "8", "2", "6", "9", "3", "6", "1", "7", "3",
      "7", "7", "8", "9", "8", "0", "4", "4", "4", "9", "6", "8",
      "2", "9", "2", "7", "6", "4", "7", "5", "0", "9", "4", "6",
      "6", "4", "9", "0", "1", "7", "9", "7", "7", "5", "8", "7",
      "2", "0", "7", "0", "9", "6", "3", "3", "0", "2", "8", "6",
      "4", "1", "6", "6", "9", "2", "8", "8", "7", "9", "1", "0",
      "9", "4", "6", "5", "5", "5", "5", "4", "7", "8", "5", "1",
      "9", "4", "0", "4", "0", "2", "6", "3", "0", "6", "5", "7",
      "4", "8", "8", "6", "7", "1", "5", "0", "5", "8", "2", "0",
      "6", "8", "1", "9", "0", "8", "9", "0", "2", "0", "0", "0",
      "7", "0", "8", "3", "8", "3", "6", "7", "6", "2", "7", "3",
      "8", "5", "4", "8", "4", "5", "8", "1", "7", "7", "1", "1",
      "5", "3", "1", "7", "6", "4", "4", "7", "5", "7", "3", "0",
      "2", "7", "0", "0", "6", "9", "8", "5", "5", "5", "7", "1",
      "3", "6", "6", "9", "5", "9", "6", "2", "2", "8", "4", "2",
      "9", "1", "4", "8", "1", "9", "8", "6", "0", "8", "3", "4",
      "9", "3", "6", "4", "7", "5", "2", "9", "2", "7", "1", "9",
      "0", "7", "4", "1", "6", "8", "4", "4", "4", "3", "6", "5",
      "5", "1", "0", "7", "0", "4", "3", "4", "2", "7", "1", "1",
      "5", "5", "9", "6", "9", "9", "5", "0", "8", "0", "9", "3",
      "0", "4", "2", "8", "8", "0", "1", "7", "7", "9", "0", "4",
      "1", "7", "4", "4", "9", "7", "7", "9", "2">>

\* The decimal 0.s is at least the decimal 0.t: at the first place where
\* the two differ, a missing digit counting as 0, s holds the greater digit.
DigitAt(s, i) == IF i \in DOMAIN s THEN DigitValue(s[i]) ELSE 0

Differ(s, t) == {i \in DOMAIN s \cup DOMAIN t : DigitAt(s, i) # DigitAt(t, i)}

DecimalAtLeast(s, t) ==
    Differ(s, t) = {}
        \/ DigitAt(s, Least(Differ(s, t))) > DigitAt(t, Least(Differ(s, t)))

\* The mantissa and the exponent of a decimal literal, split at its first
\* 'e'.
Mantissa(body) ==
    IF find(body, "e", 1) = 0 THEN body
    ELSE SubSeq(body, 1, find(body, "e", 1) - 1)

Exponent(body) ==
    IF find(body, "e", 1) = 0 THEN <<>>
    ELSE SubSeq(body, find(body, "e", 1) + 1, Len(body))

\* A string without its sign.
Unsigned(s) ==
    IF startswith(s, "-") \/ startswith(s, "+") THEN SubSeq(s, 2, Len(s)) ELSE s

\* The digits of a mantissa before and after its first '.'.
WholeDigits(mant) ==
    IF find(mant, ".", 1) = 0 THEN mant
    ELSE SubSeq(mant, 1, find(mant, ".", 1) - 1)

FracDigits(mant) ==
    IF find(mant, ".", 1) = 0 THEN <<>>
    ELSE SubSeq(mant, find(mant, ".", 1) + 1, Len(mant))

\* A mantissa is digits with at most one '.' and at least one digit; an
\* exponent, where the literal has the mark 'e', is an optional sign and at
\* least one digit.
IsMantissa(mant) ==
    /\ AllDigits(WholeDigits(mant))
    /\ AllDigits(FracDigits(mant))
    /\ Len(WholeDigits(mant)) + Len(FracDigits(mant)) > 0

IsExponent(exp) == Unsigned(exp) # <<>> /\ AllDigits(Unsigned(exp))

\* body is a decimal literal.
IsDecimal(body) ==
    /\ IsMantissa(Mantissa(body))
    /\ find(body, "e", 1) = 0 \/ IsExponent(Exponent(body))

\* The number of an exponent's digits, taken without leading zeros; six or
\* more digits count as 99999, which decides the result as well for every
\* literal shorter than that.
Clamped(digits) == IF Len(digits) > 5 THEN 99999 ELSE Number(digits)

ExponentValue(exp) ==
    IF startswith(exp, "-") THEN 0 - Clamped(LStripZeros(Unsigned(exp)))
    ELSE Clamped(LStripZeros(Unsigned(exp)))

\* The first E digits of 0.s * 10^E, the integer part of that number.
IntegerDigits(s, E) ==
    IF Len(s) >= E THEN SubSeq(s, 1, E) ELSE s \o Zeros(E - Len(s))

\* The float of value 0.s * 10^E, s being digits without zeros at either
\* end: zero for no digits; an infinity at or above DoubleOverflow; else
\* finite, with integer part 0 below 1 and the first E digits otherwise.
\* The integer part is carried ("finite") when it has at most nine digits
\* and s at most fifteen, where the double is exact enough to truncate as
\* the decimal does. Otherwise the kind is "beyond": a finite float whose
\* integer part is not carried; int is then 1 when the value is at least 1
\* and 0 when that is not known.
Scaled(neg, s, E) ==
    IF s = <<>> THEN [kind |-> "finite", neg |-> neg, int |-> 0]
    ELSE IF E > 309 \/ (E = 309 /\ DecimalAtLeast(s, DoubleOverflow))
    THEN [kind |-> "inf", neg |-> neg, int |-> 0]
    ELSE IF E < 0 THEN [kind |-> "finite", neg |-> neg, int |-> 0]
    ELSE IF Len(s) > 15 \/ E > 9
    THEN [kind |-> "beyond", neg |-> neg, int |-> IF E >= 1 THEN 1 ELSE 0]
    ELSE [kind |-> "finite", neg |-> neg, int |-> Number(IntegerDigits(s, E))]

\* The float of a mantissa with the digits whole before the '.' and frac
\* after it, times ten to the power e.
DecimalOf(neg, whole, frac, e) ==
    Scaled(neg, RStripZeros(LStripZeros(whole \o frac)),
           Len(whole) - (Len(whole \o frac) - Len(LStripZeros(whole \o frac))) + e)

\* The float a decimal literal denotes.
DecimalValue(neg, body) ==
    DecimalOf(neg, WholeDigits(Mantissa(body)), FracDigits(Mantissa(body)),
              ExponentValue(Exponent(body)))

\* The float of a stripped, lower-case string without its sign.
FloatOf(neg, body) ==
    IF body = <<"i", "n", "f">>
       \/ body = <<"i", "n", "f", "i", "n", "i", "t", "y">>
    THEN [kind |-> "inf", neg |-> neg, int |-> 0]
    ELSE IF body = <<"n", "a", "n">>
    THEN [kind |-> "nan", neg |-> neg, int |-> 0]
    ELSE IF IsDecimal(body) THEN DecimalValue(neg, body)
    ELSE [kind |-> "ValueError", neg |-> neg, int |-> 0]

\* float(timestamp_str), for strings of ASCII digits, letters, '.', '+', '-'
\* and the white space above: the string is stripped; after an optional
\* sign comes 'inf', 'infinity' or 'nan' in any case, or a decimal literal.
\* The result is the kind of float and, for a finite one, its sign and
\* integer part.
ParseFloat(str) ==
    FloatOf(startswith(Lowered(strip(str)), "-"), Unsigned(Lowered(strip(str))))

\* int(x): truncation toward zero; ValueError for what is no float and for
\* nan, which float() and int() raise alike, OverflowError for an infinity.
\* For a float beyond what the model carries the value is only a bound on
\* the integer: -1 for at most -1, 1 for at least 1, 0 when neither is known.
IntOf(x) ==
    CASE x.kind = "finite" ->
             [kind |-> "int", value |-> IF x.neg THEN 0 - x.int ELSE x.int]
      [] x.kind = "beyond" ->
             [kind |-> "beyond", value |-> IF x.neg THEN 0 - x.int ELSE x.int]
      [] x.kind = "inf" -> [kind |-> "OverflowError", value |-> 0]
      [] OTHER -> [kind |-> "ValueError", value |-> 0]

\* int(float(timestamp_str)).
IntOfFloat(str) == IntOf(ParseFloat(str))

Parsed(timestamp, rel_path) ==
    [NoRet EXCEPT !.kind = "parsed", !.ts = timestamp, !.name = rel_path]

error_result == Parsed(-1, <<>>)

\* What the parser returns for a timestamp beyond what the model carries:
\* the pair (timestamp, rel_path) without the digits of the timestamp, or,
\* when the float was below zero and not known to reach -1, a result that is
\* that pair or the error result.
Beyond(rel_path) == [NoRet EXCEPT !.kind = "beyond", !.name = rel_path]

\* The parser's answer once the timestamp is converted.
Converted(timestamp, rel_path) ==
    IF timestamp.kind = "OverflowError" THEN Raise("OverflowError")
    ELSE IF timestamp.kind = "ValueError" THEN error_result
    ELSE IF timestamp.value < 0 THEN error_result
    ELSE IF startswith(rel_path, "/") THEN error_result
    ELSE IF timestamp.kind = "beyond" THEN Beyond(rel_path)
    ELSE Parsed(timestamp.value, rel_path)

\* The two parts of a virtual path around the slash that follows its first
\* segment, timestamp_str and rel_path; the location is 0 when there is no
\* such slash.
SplitAt(fuse_path, second_slash_location) ==
    IF second_slash_location = 0
    THEN Converted(IntOfFloat(SubSeq(fuse_path, 2, Len(fuse_path))), <<>>)
    ELSE Converted(IntOfFloat(SubSeq(fuse_path, 2, second_slash_location - 1)),
                   SubSeq(fuse_path, second_slash_location + 1, Len(fuse_path)))

get_timestamp_and_rel_path(fuse_path) ==
    IF ~startswith(fuse_path, "/") \/ endswith(fuse_path, "/") THEN error_result
    ELSE SplitAt(fuse_path, find(fuse_path, "/", 2))

\* ------------------------------------------------------------ disk lookups

\* The disk the state describes, and with it the domain of the lookups: the
\* root, the directory reldir, the children of reldir and the file each
\* child directory holds. When reldir is 'd' the root holds 'd' (once it is
\* made) and '.sync' (once the archive tree is made) and nothing else. The
\* archive tree is part of the live tree: '.sync' holds 'Archive' and
\* nothing else, and '.sync/Archive/<path>' is the mirror of <path>.

\* The names present in the archive mirror of the modelled directory.
ArchNames == {n \in Names : arch[n].kind # "none"}

\* The names present in the modelled live directory; at the root the
\* metadata directory is one of them once the archive tree exists.
LiveNames ==
    {n \in Names : live[n].kind # "none"}
        \cup (IF reldir = <<>> /\ archRoot THEN {SyncDir} ELSE {})

\* rel_dir is a child of the modelled directory that is a directory in the
\* table dir.
IsChildDir(dir, rel_dir) ==
    \E n \in Names : rel_dir = join(reldir, n) /\ dir[n].kind = "dir"

\* The entry of that child in the table.
ChildDir(dir, rel_dir) ==
    dir[CHOOSE n \in Names : rel_dir = join(reldir, n) /\ dir[n].kind = "dir"]

\* os.path.isdir(root/.sync/Archive/rel_dir).
ArchIsDir(rel_dir) ==
    /\ root = "dir"
    /\ \/ rel_dir = <<>> /\ archRoot
       \/ rel_dir = reldir /\ archDir
       \/ archDir /\ IsChildDir(arch, rel_dir)

\* os.listdir(root/.sync/Archive/rel_dir) as a set.
ArchDirNames(rel_dir) ==
    IF rel_dir = reldir THEN ArchNames
    ELSE IF rel_dir = <<>> THEN (IF archDir THEN {reldir} ELSE {})
    ELSE IF IsChildDir(arch, rel_dir) THEN {InnerName}
    ELSE {}

\* The entry root/.sync/Archive/rel_dir holds under the name n.
ArchEntryAt(rel_dir, n) ==
    IF n \notin ArchDirNames(rel_dir) THEN NoEntry
    ELSE IF rel_dir = reldir THEN arch[n]
    ELSE IF rel_dir = <<>> THEN Directory
    ELSE FileEntry(ChildDir(arch, rel_dir).mtime)

\* '.sync/Archive', the archive tree as a path of the live tree.
ArchivePath == SyncDir \o <<"/", "A", "r", "c", "h", "i", "v", "e">>

\* rel_dir is '.sync/Archive' or a path below it.
InArchive(rel_dir) ==
    \/ rel_dir = ArchivePath
    \/ /\ Len(rel_dir) > Len(ArchivePath) + 1
       /\ SubSeq(rel_dir, 1, Len(ArchivePath) + 1) = ArchivePath \o <<"/">>

\* The path of which such a rel_dir is the mirror.
Mirrored(rel_dir) == SubSeq(rel_dir, Len(ArchivePath) + 2, Len(rel_dir))

\* os.path.isdir(root/rel_dir).
LiveIsDir(rel_dir) ==
    /\ root = "dir"
    /\ \/ rel_dir = <<>>
       \/ rel_dir = reldir /\ liveDir
       \/ liveDir /\ IsChildDir(live, rel_dir)
       \/ rel_dir = SyncDir /\ archRoot
       \/ InArchive(rel_dir) /\ ArchIsDir(Mirrored(rel_dir))

\* os.listdir(root/rel_dir) as a set, for a directory of the live tree.
LiveDirNames(rel_dir) ==
    IF rel_dir = reldir THEN LiveNames
    ELSE IF rel_dir = <<>>
    THEN (IF liveDir THEN {reldir} ELSE {})
             \cup (IF archRoot THEN {SyncDir} ELSE {})
    ELSE IF IsChildDir(live, rel_dir) THEN {InnerName}
    ELSE IF rel_dir = SyncDir
    THEN (IF archRoot THEN {basename(ArchivePath)} ELSE {})
    ELSE IF InArchive(rel_dir) THEN ArchDirNames(Mirrored(rel_dir))
    ELSE {}

\* The entry root/rel_dir holds under the name n.
LiveEntryAt(rel_dir, n) ==
    IF n \notin LiveDirNames(rel_dir) THEN NoEntry
    ELSE IF rel_dir = reldir THEN (IF n \in Names THEN live[n] ELSE Directory)
    ELSE IF rel_dir = <<>> \/ rel_dir = SyncDir THEN Directory
    ELSE IF InArchive(rel_dir) THEN ArchEntryAt(Mirrored(rel_dir), n)
    ELSE FileEntry(ChildDir(live, rel_dir).mtime)

\* The entry the live tree holds at root/rel_path.
LiveStat(rel_path) ==
    IF LiveIsDir(dirname(rel_path))
    THEN LiveEntryAt(dirname(rel_path), basename(rel_path))
    ELSE NoEntry

\* The names of a listing that the archive mirror of rel_dir holds, in the
\* order of the listing.
RECURSIVE ListingOf(_, _)
ListingOf(rel_dir, listing) ==
    IF listing = <<>> THEN <<>>
    ELSE IF Head(listing) \in ArchDirNames(rel_dir)
    THEN <<Head(listing)>> \o ListingOf(rel_dir, Tail(listing))
    ELSE ListingOf(rel_dir, Tail(listing))

\* The orders in which os.listdir may return the names of S.
Listings(S) ==
    {s \in [1 .. Cardinality(S) -> S] : \A i, j \in DOMAIN s : s[i] = s[j] => i = j}

\* ------------------------------------------------------------ the resolver

live_file_creation_time(entry) == entry.mtime

archive_file_creation_time(entry) == entry.mtime

\* A live file that counts only strictly after its boundary.
LiveQualifiesStrict(timestamp, live_crtime) == timestamp > live_crtime

LiveQualifies(timestamp, live_crtime) == timestamp >= live_crtime

\* One character of the unescaped basename used as a pattern: '.' matches
\* any character, a letter or digit matches itself.
PatternChar(pc, c) == IF pc = "." THEN c # "\n" ELSE pc = c

\* Where '$' matches at the end of a name: at its very end, and also just
\* before a newline that is its last character. BeforeDollar is the name up
\* to that place.
BeforeDollar(filename) ==
    IF endswith(filename, "\n") THEN SubSeq(filename, 1, Len(filename) - 1)
    ELSE filename

\* '^' + basename + '(\.[0-9]+)?' matches the whole of head.
MatchesToEnd(base, head) ==
    /\ Len(head) >= Len(base)
    /\ \A i \in 1 .. Len(base) : PatternChar(base[i], head[i])
    /\ LET rest == SubSeq(head, Len(base) + 1, Len(head))
       IN  \/ rest = <<>>
           \/ /\ Len(rest) >= 2
              /\ rest[1] = "."
              /\ \A i \in 2 .. Len(rest) : rest[i] \in Digits

\* re.compile('^' + basename + '(\.[0-9]+)?$').match(filename), for
\* basenames made of letters, digits and dots.
re_previous_version_filenames(base, filename) ==
    MatchesToEnd(base, filename) \/ MatchesToEnd(base, BeforeDollar(filename))

\* The (crtime, path) pairs the scan of the archive mirror collects, in
\* listing order.
RECURSIVE ScanArchive(_, _, _)
ScanArchive(rel_dir, base, listing) ==
    IF listing = <<>> THEN <<>>
    ELSE LET filename == Head(listing)
             rest == ScanArchive(rel_dir, base, Tail(listing))
         IN  IF re_previous_version_filenames(base, filename)
                /\ ArchEntryAt(rel_dir, filename).kind = "file"
             THEN <<[ts |-> archive_file_creation_time(
                                ArchEntryAt(rel_dir, filename)),
                     name |-> filename]>> \o rest
             ELSE rest

\* list.sort(key=ts): stable, ascending.
RECURSIVE InsertAsc(_, _)
InsertAsc(x, s) ==
    IF s = <<>> THEN <<x>>
    ELSE IF s[Len(s)].ts <= x.ts THEN Append(s, x)
    ELSE Append(InsertAsc(x, SubSeq(s, 1, Len(s) - 1)), s[Len(s)])

RECURSIVE SortAsc(_)
SortAsc(s) ==
    IF s = <<>> THEN <<>>
    ELSE InsertAsc(s[Len(s)], SortAsc(SubSeq(s, 1, Len(s) - 1)))

\* The boundary of the last (most recent) archived version becomes the live
\* boundary when a live version exists.
SnapLast(live_crtime, ts_and_paths) ==
    IF live_crtime # -1 /\ Len(ts_and_paths) > 0
    THEN [ts_and_paths EXCEPT ![Len(ts_and_paths)].ts = live_crtime]
    ELSE ts_and_paths

\* A walk that takes the first version whose boundary lies before the query.
VersionCoversReversed(timestamp, last_valid_timestamp) ==
    timestamp > last_valid_timestamp

VersionCovers(timestamp, last_valid_timestamp) == timestamp < last_valid_timestamp

\* The first pair of the list whose boundary is after the timestamp.
RECURSIVE FirstCovering(_, _)
FirstCovering(timestamp, ts_and_paths) ==
    IF ts_and_paths = <<>> THEN NotFound
    ELSE IF VersionCovers(timestamp, Head(ts_and_paths).ts)
         THEN Found(Head(ts_and_paths).ts, "archive", Head(ts_and_paths).name)
         ELSE FirstCovering(timestamp, Tail(ts_and_paths))

\* The archived versions of the path with the boundaries the resolver uses.
EffectiveVersions(rel_path, listing) ==
    LET entry == LiveStat(rel_path)
        live_crtime == IF entry.kind = "file"
                       THEN live_file_creation_time(entry) ELSE -1
    IN  SnapLast(live_crtime,
                 SortAsc(ScanArchive(dirname(rel_path), basename(rel_path),
                                     listing)))

\* The archive half of resolve_file; os.listdir raises when the mirror
\* directory does not exist.
ResolveArchive(timestamp, rel_path, listing) ==
    IF ~ArchIsDir(dirname(rel_path)) THEN Raise("OSError")
    ELSE FirstCovering(timestamp, EffectiveVersions(rel_path, listing))

resolve_file(timestamp, rel_path, listing) ==
    IF startswith(rel_path, "/") \/ endswith(rel_path, "/") \/ rel_path = <<>>
    THEN Raise("EINVAL")
    ELSE IF root = "missing" THEN Raise("ENOENT")
    ELSE IF root # "dir" THEN Raise("ENOTDIR")
    ELSE LET entry == LiveStat(rel_path)
         IN  IF entry.kind = "file"
                /\ LiveQualifies(timestamp, live_file_creation_time(entry))
             THEN Found(live_file_creation_time(entry), "live", basename(rel_path))
             ELSE ResolveArchive(timestamp, rel_path, listing)

\* ----------------------------------------------------------- the projector

\* re.sub('\.[0-9]+$', '', filename): drop a trailing dot-and-digits suffix.
\* '$' also matches before a newline that ends the name, and the newline
\* stays.
decoded_filename(filename) ==
    LET head == BeforeDollar(filename)
        tail == SubSeq(filename, Len(head) + 1, Len(filename))
        at == {i \in 1 .. Len(head) - 1 :
                   /\ head[i] = "."
                   /\ \A j \in i + 1 .. Len(head) : head[j] \in Digits}
    IN  IF at = {} THEN filename
        ELSE SubSeq(head, 1, (CHOOSE i \in at : \A j \in at : i <= j) - 1) \o tail

ListQualifies(timestamp, live_crtime) == timestamp >= live_crtime

\* live_crtimes[name] after the scan of the live directory (-1 by default).
live_crtimes(rel_path, name) ==
    IF LiveIsDir(rel_path) /\ LiveEntryAt(rel_path, name).kind = "file"
    THEN live_file_creation_time(LiveEntryAt(rel_path, name))
    ELSE -1

\* archive_crtimes[decoded] after the scan of the archive mirror, in listing
\* order.
RECURSIVE archive_crtimes(_, _, _)
archive_crtimes(rel_path, decoded, listing) ==
    IF listing = <<>> THEN <<>>
    ELSE LET filename == Head(listing)
             rest == archive_crtimes(rel_path, decoded, Tail(listing))
         IN  IF decoded_filename(filename) = decoded
                /\ ArchEntryAt(rel_path, filename).kind = "file"
             THEN <<[ts |-> archive_file_creation_time(
                                ArchEntryAt(rel_path, filename)),
                     name |-> filename]>> \o rest
             ELSE rest

\* list.sort(reverse=True, key=ts): stable, descending.
RECURSIVE InsertDesc(_, _)
InsertDesc(x, s) ==
    IF s = <<>> THEN <<x>>
    ELSE IF s[Len(s)].ts >= x.ts THEN Append(s, x)
    ELSE Append(InsertDesc(x, SubSeq(s, 1, Len(s) - 1)), s[Len(s)])

RECURSIVE SortDesc(_)
SortDesc(s) ==
    IF s = <<>> THEN <<>>
    ELSE InsertDesc(s[Len(s)], SortDesc(SubSeq(s, 1, Len(s) - 1)))

\* The boundary of the first (most recent) archived version becomes the live
\* boundary when the name has a live version.
SnapFirst(live_crtime, ts_and_paths) ==
    IF live_crtime # -1
    THEN [ts_and_paths EXCEPT ![1].ts = live_crtime]
    ELSE ts_and_paths

\* The archived versions of a decoded name with the boundaries the projector
\* uses.
ListedVersions(rel_path, decoded, listing) ==
    SnapFirst(live_crtimes(rel_path, decoded),
              SortDesc(archive_crtimes(rel_path, decoded, listing)))

\* The name under which the archive scan lists a child that is not a
\* regular file.
ArchiveDirName(filename) == decoded_filename(filename)

\* The names the scan of the live directory adds as files and as directories.
LiveFiles(timestamp, rel_path) ==
    IF ~LiveIsDir(rel_path) THEN {}
    ELSE {n \in LiveDirNames(rel_path) :
              /\ LiveEntryAt(rel_path, n).kind = "file"
              /\ ListQualifies(timestamp,
                     live_file_creation_time(LiveEntryAt(rel_path, n)))}

LiveDirs(rel_path) ==
    IF ~LiveIsDir(rel_path) THEN {}
    ELSE {n \in LiveDirNames(rel_path) :
              /\ LiveEntryAt(rel_path, n).kind # "file"
              /\ (rel_path # <<>> \/ n # SyncDir)}

\* The names the scan of the archive mirror adds as files and as
\* directories. The listing is os.listdir of the mirror of rel_path.
ArchiveFiles(timestamp, rel_path, listing) ==
    IF ~ArchIsDir(rel_path) THEN {}
    ELSE LET names == ListingOf(rel_path, listing)
         IN  {decoded \in {decoded_filename(names[i]) : i \in DOMAIN names} :
                 /\ archive_crtimes(rel_path, decoded, names) # <<>>
                 /\ LET ts_and_paths == ListedVersions(rel_path, decoded, names)
                    IN  \E i \in DOMAIN ts_and_paths :
                            VersionCovers(timestamp, ts_and_paths[i].ts)}

ArchiveDirs(rel_path, listing) ==
    IF ~ArchIsDir(rel_path) THEN {}
    ELSE LET names == ListingOf(rel_path, listing)
         IN  {ArchiveDirName(names[i]) :
                 i \in {j \in DOMAIN names :
                            ArchEntryAt(rel_path, names[j]).kind # "file"}}

\* readdir returns ['.', '..'] followed by the file names and the directory
\* names; the two sets are kept apart here.
readdir(timestamp, rel_path, listing) ==
    [NoRet EXCEPT
        !.kind = "list",
        !.files = LiveFiles(timestamp, rel_path)
                      \cup ArchiveFiles(timestamp, rel_path, listing),
        !.dirs = LiveDirs(rel_path) \cup ArchiveDirs(rel_path, listing)]

\* ----------------------------------------------------------------- actions

EntryCount ==
    Cardinality({n \in Names : live[n].kind # "none"})
        + Cardinality({n \in Names : arch[n].kind # "none"})

\* BTSyncRewinder(root_dir): the root may be anything; nothing is known of
\* the two trees yet.
Init ==
    /\ root \in {"missing", "file", "dir"}
    /\ reldir \in RelDirs
    /\ liveDir = (root = "dir" /\ reldir = <<>>)
    /\ archDir = FALSE
    /\ archRoot = FALSE
    /\ live = EmptyDir
    /\ arch = EmptyDir
    /\ call = NoCall
    /\ ret = NoRet
    /\ handles = {}

\* TestBase.make_root_dir: create the root and its archive directory.
MakeRootDir ==
    /\ call.op = "none"
    /\ root # "file"
    /\ root' = "dir"
    /\ liveDir' = (IF reldir = <<>> THEN TRUE ELSE liveDir)
    /\ archDir' = (IF reldir = <<>> THEN TRUE ELSE archDir)
    /\ archRoot' = TRUE
    /\ call' = NoCall
    /\ ret' = NoRet
    /\ UNCHANGED <<reldir, live, arch, handles>>

\* TestBase.delete_root_dir: remove the whole tree.
DeleteRootDir ==
    /\ call.op = "none"
    /\ root = "dir"
    /\ root' = "missing"
    /\ liveDir' = FALSE
    /\ archDir' = FALSE
    /\ archRoot' = FALSE
    /\ live' = EmptyDir
    /\ arch' = EmptyDir
    /\ call' = NoCall
    /\ ret' = NoRet
    /\ UNCHANGED <<reldir, handles>>

\* TestBase.create_file(timestamp, path) for a file of the live directory:
\* the directories above it are made, the file is written and its
\* modification time set.
CreateLiveFile ==
    /\ call.op = "none"
    /\ \E n \in Names, t \in Times :
        /\ root # "file"
        /\ live[n].kind # "dir"
        /\ live[n].kind = "none" => EntryCount < MaxEntries
        /\ root' = "dir"
        /\ liveDir' = TRUE
        /\ live' = [live EXCEPT ![n] = FileEntry(t)]
        /\ call' = NoCall
        /\ ret' = NoRet
        /\ UNCHANGED <<reldir, archDir, archRoot, arch, handles>>

\* TestBase.create_file(timestamp, path) for a file of the archive mirror.
\* Its directories include root/.sync, which is made on the way.
CreateArchiveFile ==
    /\ call.op = "none"
    /\ \E n \in Names, t \in Times :
        /\ root # "file"
        /\ arch[n].kind # "dir"
        /\ arch[n].kind = "none" => EntryCount < MaxEntries
        /\ root' = "dir"
        /\ liveDir' = (IF reldir = <<>> THEN TRUE ELSE liveDir)
        /\ archDir' = TRUE
        /\ archRoot' = TRUE
        /\ arch' = [arch EXCEPT ![n] = FileEntry(t)]
        /\ call' = NoCall
        /\ ret' = NoRet
        /\ UNCHANGED <<reldir, live, handles>>

\* TestBase.create_file(timestamp, <name>/x) in the live tree: the child
\* <name> of the modelled directory is made a directory unless it is one,
\* and the file 'x' in it is written and its modification time set.
CreateLiveFileInDir ==
    /\ call.op = "none"
    /\ \E n \in Names, t \in InnerTimes :
        /\ root # "file"
        /\ live[n].kind # "file"
        /\ live[n].kind = "none" => EntryCount < MaxEntries
        /\ root' = "dir"
        /\ liveDir' = TRUE
        /\ live' = [live EXCEPT ![n] = DirEntry(t)]
        /\ call' = NoCall
        /\ ret' = NoRet
        /\ UNCHANGED <<reldir, archDir, archRoot, arch, handles>>

\* The same in the archive mirror.
CreateArchiveFileInDir ==
    /\ call.op = "none"
    /\ \E n \in Names, t \in InnerTimes :
        /\ root # "file"
        /\ arch[n].kind # "file"
        /\ arch[n].kind = "none" => EntryCount < MaxEntries
        /\ root' = "dir"
        /\ liveDir' = (IF reldir = <<>> THEN TRUE ELSE liveDir)
        /\ archDir' = TRUE
        /\ archRoot' = TRUE
        /\ arch' = [arch EXCEPT ![n] = DirEntry(t)]
        /\ call' = NoCall
        /\ ret' = NoRet
        /\ UNCHANGED <<reldir, live, handles>>

\* The relative paths the resolver is called with: every name of the
\* modelled directory, the file below each, and the three malformed shapes.
RelPaths ==
    {join(reldir, n) : n \in Names}
        \cup {join(join(reldir, n), InnerName) : n \in Names}
        \cup {<<>>, <<"/">> \o f_t, f_t \o <<"/">>}

\* TRUE when resolve_file got as far as os.listdir of the archive mirror and
\* the listing was read: it returned an archived version or None.
Listed(r) == r.kind = "notfound" \/ (r.kind = "ok" /\ r.tree = "archive")

\* A call of core.resolve_file. The listing is what os.listdir returns, in
\* the order the file system happens to give; it is kept with the call when
\* the call read it.
ResolveStep(timestamp, rel_path, listing, r) ==
    /\ ret' = r
    /\ call' = [NoCall EXCEPT
                   !.op = "resolve_file", !.timestamp = timestamp,
                   !.rel_path = rel_path,
                   !.listing = IF Listed(r) THEN listing ELSE <<>>]
    /\ UNCHANGED <<disk, handles>>

ResolveFile ==
    /\ call.op = "none"
    /\ \E timestamp \in Times, rel_path \in RelPaths :
      \E listing \in Listings(ArchDirNames(dirname(rel_path))) :
        ResolveStep(timestamp, rel_path, listing,
                    resolve_file(timestamp, rel_path, listing))

\* The directories readdir is called on: the modelled directory, its
\* children, and the archive tree as part of the live tree.
RelDirPaths ==
    {reldir, SyncDir, ArchivePath} \cup {join(reldir, n) : n \in Names}

\* A call of core.readdir.
Readdir ==
    /\ call.op = "none"
    /\ \E timestamp \in Times, rel_path \in RelDirPaths :
      \E listing \in Listings(ArchDirNames(rel_path)) :
        /\ call' = [NoCall EXCEPT
                       !.op = "readdir", !.timestamp = timestamp,
                       !.rel_path = rel_path,
                       !.listing = IF ArchIsDir(rel_path) THEN listing ELSE <<>>]
        /\ ret' = readdir(timestamp, rel_path, listing)
        /\ UNCHANGED <<disk, handles>>

\* The call returns to its caller; the core keeps nothing between calls.
Return ==
    /\ call.op # "none"
    /\ call' = NoCall
    /\ ret' = NoRet
    /\ UNCHANGED <<disk, handles>>

Next ==
    \/ MakeRootDir
    \/ DeleteRootDir
    \/ CreateLiveFile
    \/ CreateArchiveFile
    \/ CreateLiveFileInDir
    \/ CreateArchiveFileInDir
    \/ ResolveFile
    \/ Readdir
    \/ Return

Spec == Init /\ [][Next]_vars

\* ------------------------------------------------- the parser on its own

\* The characters of the virtual paths given to the parser.
PathChars == {"/", "0", "1", ".", "-", "e", "a", "i", "n", "f"}

\* Virtual paths have at most this many characters.
MaxPathLen == 5

\* The virtual paths of n characters.
FusePaths(n) == [1 .. n -> PathChars]

\* A call of core.get_timestamp_and_rel_path.
GetTimestampAndRelPath ==
    /\ call.op = "none"
    /\ \E n \in 0 .. MaxPathLen : \E fuse_path \in FusePaths(n) :
        /\ call' = [NoCall EXCEPT
                       !.op = "get_timestamp_and_rel_path", !.fuse_path = fuse_path]
        /\ ret' = get_timestamp_and_rel_path(fuse_path)
        /\ UNCHANGED <<disk, handles>>

NextParse ==
    \/ GetTimestampAndRelPath
    \/ Return

SpecParse == Init /\ [][NextParse]_vars

\* ------------------------------------------------------------- the adapter

\* The open(2) flags the adapter tests for; O_RDONLY is the empty set.
WriteFlags == {"O_WRONLY", "O_RDWR", "O_APPEND", "O_CREAT", "O_TRUNC"}

\* The flag words open is called with: O_RDONLY, each flag alone, all of them.
FlagSets == {{}} \cup {{x} : x \in WriteFlags} \cup {WriteFlags}

\* A mask that tests the access mode only.
IsWriteOpenAccessMode(flags) == flags \cap {"O_WRONLY", "O_RDWR"} # {}

\* (flags & (O_WRONLY | O_RDWR | O_APPEND | O_CREAT | O_TRUNC)) != 0
IsWriteOpen(flags) == flags \cap WriteFlags # {}

\* At most this many file handles are open at a time.
MaxHandles == 1

\* At most this many files and directories exist in the mounted directory.
MaxMounted == 1

DigitChar(t) ==
    CASE t = 0 -> "0" [] t = 1 -> "1" [] t = 2 -> "2" [] t = 3 -> "3"
      [] t = 4 -> "4" [] t = 5 -> "5" [] t = 6 -> "6" [] t = 7 -> "7"
      [] t = 8 -> "8" [] t = 9 -> "9"

\* The virtual path /<timestamp> or /<timestamp>/<rel_path>.
VirtPath(t, rel_path) ==
    <<"/", DigitChar(t)>>
        \o (IF rel_path = <<>> THEN <<>> ELSE <<"/">> \o rel_path)

\* The virtual paths FUSE hands to the adapter: the snapshot directories,
\* the names in them, and paths the parser does not accept.
VirtPaths ==
    {VirtPath(t, rel) : t \in Times, rel \in {<<>>} \cup Names}
        \cup {<<>>, <<"/", "a">>, <<"/", "-", "1">>, <<"/", "i", "n", "f">>}

\* The lowest file descriptor not in use.
FreeFd == CHOOSE fd \in 3 .. 3 + Cardinality(handles) :
              /\ \A h \in handles : h.fd # fd
              /\ \A g \in 3 .. fd - 1 : \E h \in handles : h.fd = g

Handle(fd) == [NoRet EXCEPT !.kind = "fd", !.ts = fd]
Value(v) == [NoRet EXCEPT !.kind = "value", !.err = v]
Attrs(tree, name) == [NoRet EXCEPT !.kind = "attrs", !.tree = tree, !.name = name]

\* open, once resolve_file has returned: unpacking the None it returns for
\* a path with no version raises TypeError; otherwise os.open gives a handle.
OpenResolved(resolved) ==
    IF resolved.kind = "raise" THEN resolved
    ELSE IF resolved.kind = "notfound" THEN Raise("TypeError")
    ELSE Handle(FreeFd)

\* open, once the virtual path is parsed. The parser's exception passes
\* through, here and in the operations below; so does a timestamp beyond
\* what the model carries, for which the model gives no answer.
OpenParsed(parsed, listing) ==
    IF parsed.kind \in {"raise", "beyond"} THEN parsed
    ELSE OpenResolved(resolve_file(parsed.ts, parsed.name, listing))

\* What BTSyncRewinder.open returns or raises.
Rewinder_open(virt_abs_path, flags, listing) ==
    IF IsWriteOpen(flags) THEN Raise("EROFS")
    ELSE OpenParsed(get_timestamp_and_rel_path(virt_abs_path), listing)

\* os.open(real_abs_path, flags) with O_TRUNC empties the file, which sets
\* its modification time to the time of the call.
os_open(dir, name, flags, now) ==
    IF "O_TRUNC" \in flags THEN [dir EXCEPT ![name] = FileEntry(now)] ELSE dir

\* The effect of open answering r after resolve_file answered file.
OpenStep(virt_abs_path, flags, listing, r, file) ==
    /\ ret' = r
    /\ call' = [NoCall EXCEPT
                   !.op = "open", !.fuse_path = virt_abs_path, !.flags = flags,
                   !.listing = IF r.kind = "fd" /\ file.tree = "archive"
                               THEN listing ELSE <<>>]
    /\ IF r.kind = "fd"
       THEN /\ handles' = handles \cup {[fd |-> r.ts, flags |-> flags]}
            /\ \E now \in (IF "O_TRUNC" \in flags THEN Times ELSE {0}) :
                 /\ live' = IF file.tree = "live"
                            THEN os_open(live, file.name, flags, now)
                            ELSE live
                 /\ arch' = IF file.tree = "archive"
                            THEN os_open(arch, file.name, flags, now)
                            ELSE arch
            /\ UNCHANGED <<root, reldir, liveDir, archDir, archRoot>>
       ELSE UNCHANGED <<disk, handles>>

\* resolve_file on a parsed virtual path.
ResolveParsed(parsed, listing) ==
    IF parsed.kind \in {"raise", "beyond"} THEN parsed
    ELSE resolve_file(parsed.ts, parsed.name, listing)

\* BTSyncRewinder.open
Open ==
    /\ call.op = "none"
    /\ Cardinality(handles) < MaxHandles
    /\ \E listing \in Listings(ArchNames) :
       \E virt_abs_path \in VirtPaths, flags \in FlagSets :
         OpenStep(virt_abs_path, flags, listing,
                  Rewinder_open(virt_abs_path, flags, listing),
                  ResolveParsed(get_timestamp_and_rel_path(virt_abs_path), listing))

\* BTSyncRewinder.read: os.lseek and os.read on the handle.
Read ==
    /\ call.op = "none"
    /\ \E h \in handles :
         /\ call' = [NoCall EXCEPT !.op = "read", !.timestamp = h.fd]
         /\ ret' = Value("bytes")
         /\ UNCHANGED <<disk, handles>>

\* readdir, once the virtual path is parsed.
ReaddirParsed(parsed, listing) ==
    IF parsed.kind \in {"raise", "beyond"} THEN parsed
    ELSE readdir(parsed.ts, parsed.name, listing)

\* What BTSyncRewinder.readdir returns or raises.
Rewinder_readdir(virt_abs_path, listing) ==
    ReaddirParsed(get_timestamp_and_rel_path(virt_abs_path), listing)

\* The effect of an operation that looks at the trees and answers r.
LookStep(op, virt_abs_path, listing, r, scanned) ==
    /\ ret' = r
    /\ call' = [NoCall EXCEPT
                   !.op = op, !.fuse_path = virt_abs_path,
                   !.listing = IF scanned THEN listing ELSE <<>>]
    /\ UNCHANGED <<disk, handles>>

\* The directory readdir lists for a virtual path: the relative path the
\* parser gives, which is '' also when the parser rejects the path.
ReaddirDir(virt_abs_path) ==
    IF get_timestamp_and_rel_path(virt_abs_path).kind \in {"parsed", "beyond"}
    THEN get_timestamp_and_rel_path(virt_abs_path).name
    ELSE <<>>

\* A listing came back.
ScannedList(r) == r.kind = "list"

\* BTSyncRewinder.readdir
FuseReaddir ==
    /\ call.op = "none"
    /\ \E virt_abs_path \in VirtPaths :
       \E listing \in Listings(ArchDirNames(ReaddirDir(virt_abs_path))) :
         LookStep("fuse_readdir", virt_abs_path, listing,
                  Rewinder_readdir(virt_abs_path, listing),
                  ScannedList(Rewinder_readdir(virt_abs_path, listing)))

\* getattr, once resolve_file has returned: unpacking None raises TypeError.
GetattrResolved(resolved) ==
    IF resolved.kind = "raise" THEN resolved
    ELSE IF resolved.kind = "notfound" THEN Raise("TypeError")
    ELSE Attrs(resolved.tree, resolved.name)

\* getattr, once the virtual path is parsed: the attributes of the resolved
\* file, or of the root directory when the relative path is empty; os.lstat
\* raises when the root does not exist.
GetattrParsed(parsed, listing) ==
    IF parsed.kind \in {"raise", "beyond"} THEN parsed
    ELSE IF parsed.name # <<>>
    THEN GetattrResolved(resolve_file(parsed.ts, parsed.name, listing))
    ELSE IF root = "missing" THEN Raise("OSError")
    ELSE Attrs("root", <<>>)

\* What BTSyncRewinder.getattr returns or raises.
Rewinder_getattr(virt_abs_path, listing) ==
    GetattrParsed(get_timestamp_and_rel_path(virt_abs_path), listing)

\* Attributes that came from a file of the archive tree.
ScannedAttrs(r) == r.kind = "attrs" /\ r.tree = "archive"

\* BTSyncRewinder.getattr
Getattr ==
    /\ call.op = "none"
    /\ \E listing \in Listings(ArchNames) :
       \E virt_abs_path \in VirtPaths :
         LookStep("getattr", virt_abs_path, listing,
                  Rewinder_getattr(virt_abs_path, listing),
                  ScannedAttrs(Rewinder_getattr(virt_abs_path, listing)))

\* A handler that ignores its arguments and returns or raises at once.
Answer(op, r) ==
    /\ call.op = "none"
    /\ call' = [NoCall EXCEPT !.op = op]
    /\ ret' = r
    /\ UNCHANGED <<disk, handles>>

\* BTSyncRewinder.access
Access == Answer("access", Value("True"))

\* BTSyncRewinder.flush: os.fsync on the handle.
Flush ==
    /\ call.op = "none"
    /\ \E h \in handles :
         /\ call' = [NoCall EXCEPT !.op = "flush", !.timestamp = h.fd]
         /\ ret' = Value("None")
         /\ UNCHANGED <<disk, handles>>

\* BTSyncRewinder.release: os.close on the handle.
Release ==
    /\ call.op = "none"
    /\ \E h \in handles :
         /\ call' = [NoCall EXCEPT !.op = "release", !.timestamp = h.fd]
         /\ ret' = Value("None")
         /\ handles' = handles \ {h}
         /\ UNCHANGED disk

\* BTSyncRewinder.fsync: the same as flush.
Fsync ==
    /\ call.op = "none"
    /\ \E h \in handles :
         /\ call' = [NoCall EXCEPT !.op = "fsync", !.timestamp = h.fd]
         /\ ret' = Value("None")
         /\ UNCHANGED <<disk, handles>>

Readlink == Answer("readlink", Raise("EACCES"))
Statfs == Answer("statfs", Raise("EACCES"))
Chmod == Answer("chmod", Raise("EROFS"))
Chown == Answer("chown", Raise("EROFS"))
Mknod == Answer("mknod", Raise("EROFS"))
Rmdir == Answer("rmdir", Raise("EROFS"))
Mkdir == Answer("mkdir", Raise("EROFS"))
Unlink == Answer("unlink", Raise("EROFS"))
Symlink == Answer("symlink", Raise("EROFS"))
Rename == Answer("rename", Raise("EROFS"))
Link == Answer("link", Raise("EROFS"))
Utimens == Answer("utimens", Raise("EACCES"))
Create == Answer("create", Raise("EROFS"))
Write == Answer("write", Raise("EROFS"))
Truncate == Answer("truncate", Raise("EROFS"))

\* The mounted tree is the modelled directory, with few entries.
Mounted == reldir = <<>> /\ EntryCount <= MaxMounted

MountMakeRootDir == MakeRootDir /\ Mounted'
MountDeleteRootDir == DeleteRootDir /\ Mounted'
MountCreateLiveFile == CreateLiveFile /\ Mounted'
MountCreateArchiveFile == CreateArchiveFile /\ Mounted'
MountCreateLiveFileInDir == CreateLiveFileInDir /\ Mounted'
MountCreateArchiveFileInDir == CreateArchiveFileInDir /\ Mounted'

InitFuse == Init /\ Mounted

NextFuse ==
    \/ MountMakeRootDir
    \/ MountDeleteRootDir
    \/ MountCreateLiveFile
    \/ MountCreateArchiveFile
    \/ MountCreateLiveFileInDir
    \/ MountCreateArchiveFileInDir
    \/ Open
    \/ Read
    \/ FuseReaddir
    \/ Getattr
    \/ Access
    \/ Flush
    \/ Release
    \/ Fsync
    \/ Readlink
    \/ Statfs
    \/ Chmod
    \/ Chown
    \/ Mknod
    \/ Rmdir
    \/ Mkdir
    \/ Unlink
    \/ Symlink
    \/ Rename
    \/ Link
    \/ Utimens
    \/ Create
    \/ Write
    \/ Truncate
    \/ Return

SpecFuse == InitFuse /\ [][NextFuse]_vars

\* ------------------------------------------------- the claims' vocabulary

\* A relative path resolve_file's contract accepts.
WellFormed(rel_path) ==
    ~(startswith(rel_path, "/") \/ endswith(rel_path, "/") \/ rel_path = <<>>)

\* filename is base, or base followed by a dot and digits.
IsVersionName(base, filename) ==
    \/ filename = base
    \/ /\ Len(filename) >= Len(base) + 2
       /\ SubSeq(filename, 1, Len(base)) = base
       /\ filename[Len(base) + 1] = "."
       /\ \A i \in Len(base) + 2 .. Len(filename) : filename[i] \in Digits

\* The archived versions of a name: the regular files of the archive mirror
\* that carry its name or its name with a version counter.
ArchivedVersions(n) ==
    {x \in Names : arch[x].kind = "file" /\ IsVersionName(n, x)}

\* A logical name: one that does not itself end in a dot and digits.
IsLogicalName(n) ==
    ~\E i \in 1 .. Len(n) - 1 :
        n[i] = "." /\ \A j \in i + 1 .. Len(n) : n[j] \in Digits

\* A resolve_file call on a root that is a directory, for a well-formed
\* path into the modelled directory.
ResolveCall ==
    /\ call.op = "resolve_file"
    /\ root = "dir"
    /\ WellFormed(call.rel_path)
    /\ dirname(call.rel_path) = reldir
    /\ basename(call.rel_path) \in Names

CallName == basename(call.rel_path)

\* A readdir call on the modelled directory.
ReaddirCall == call.op = "readdir" /\ call.rel_path = reldir

LiveIsFile(n) == liveDir /\ live[n].kind = "file"

\* The boundary the list s gives the archived file x (x occurs in s).
BoundaryIn(s, x) == s[CHOOSE i \in DOMAIN s : s[i].name = x].ts

Occurs(s, x) == \E i \in DOMAIN s : s[i].name = x

\* ------------------------------------------------------------------ claims

\* C1: a live regular file with boundary b is returned as (b, live path) for
\* every timestamp t >= b, whatever the archive holds.
C1_LivePreference ==
    (ResolveCall /\ LiveIsFile(CallName) /\ call.timestamp >= live[CallName].mtime)
        => ret = Found(live[CallName].mtime, "live", CallName)

\* C1 witness: the live file is returned at t = b while two archived versions
\* of the name exist, one of them with a boundary after t.
C1_Witness ==
    /\ ResolveCall /\ LiveIsFile(CallName)
    /\ call.timestamp = live[CallName].mtime
    /\ Cardinality(ArchivedVersions(CallName)) >= 2
    /\ \E x \in ArchivedVersions(CallName) : arch[x].mtime > call.timestamp
    /\ ret.kind = "ok" /\ ret.tree = "live"

\* C2: an archived version returned for t is a candidate (named basename or
\* basename.<digits>), its effective boundary is after t, and no other
\* candidate has an effective boundary after t and before the returned one.
C2_EarliestCandidate ==
    (ResolveCall /\ ret.kind = "ok" /\ ret.tree = "archive")
        => LET s == EffectiveVersions(call.rel_path, call.listing)
           IN  /\ IsVersionName(CallName, ret.name)
               /\ ret.ts > call.timestamp
               /\ \A x \in ArchivedVersions(CallName) \ {ret.name} :
                      Occurs(s, x) =>
                          ~(BoundaryIn(s, x) > call.timestamp
                                /\ BoundaryIn(s, x) < ret.ts)

\* C3: with no live regular file and an existing archive mirror, None is
\* returned exactly when t is at or after the boundary of every archived
\* version of the path, and otherwise an archived version with its own
\* boundary.
C3_DeletedFile ==
    (ResolveCall /\ ~LiveIsFile(CallName) /\ archDir)
        => IF \A x \in ArchivedVersions(CallName) : call.timestamp >= arch[x].mtime
           THEN ret = NotFound
           ELSE /\ ret.kind = "ok" /\ ret.tree = "archive"
                /\ ret.name \in ArchivedVersions(CallName)
                /\ ret.ts = arch[ret.name].mtime

\* The boundaries of the archived versions of n in the list s are snapped as
\* the law says: with a live file of boundary b, a version of greatest
\* modification time has boundary b and every other keeps its own; without
\* one every version keeps its own.
SnapLaw(n, Boundary(_)) ==
    LET V == ArchivedVersions(n)
    IN  IF LiveIsFile(n) /\ V # {}
        THEN \E x \in V :
                 /\ \A y \in V : arch[y].mtime <= arch[x].mtime
                 /\ Boundary(x) = live[n].mtime
                 /\ \A y \in V \ {x} : Boundary(y) = arch[y].mtime
        ELSE \A y \in V : Boundary(y) = arch[y].mtime

\* The boundary readdir uses for the archived file x: the one of its entry in
\* the version list of its decoded name.
ReaddirBoundary(x) ==
    BoundaryIn(ListedVersions(reldir, decoded_filename(x), call.listing), x)

\* The boundary resolve_file uses for the archived file x when resolving the
\* name n; its own when the scan does not select it.
ResolveBoundary(n, x) ==
    LET s == EffectiveVersions(join(reldir, n), call.listing)
    IN  IF Occurs(s, x) THEN BoundaryIn(s, x) ELSE arch[x].mtime

\* C4: in resolve_file and in readdir alike, the most recent archived version
\* of a logical name with a live file takes the live boundary, every other archived
\* version keeps its own, and nothing changes without a live file.
C4_BoundarySnap ==
    /\ (ResolveCall /\ Listed(ret) /\ IsLogicalName(CallName))
           => LET Boundary(x) == ResolveBoundary(CallName, x)
              IN  SnapLaw(CallName, Boundary)
    /\ (ReaddirCall /\ ArchIsDir(reldir))
           => \A n \in {m \in Names : IsLogicalName(m)} :
                  SnapLaw(n, ReaddirBoundary)

\* The age rank of a returned version: archived versions by their own
\* modification time, the live version after all of them.
Rank(r) == IF r.tree = "live" THEN MaxTime + 1 ELSE arch[r.name].mtime

\* C5: on a fixed disk (the archive mirror keeping its listing order) and
\* path, a later timestamp never resolves to an older version; after the live
\* version only the live version is returned, and after None without a live
\* file no archived version is returned.
C5_MonotonicCoverage ==
    (ResolveCall /\ ret.kind \in {"ok", "notfound"})
        => \A t2 \in Times : t2 > call.timestamp =>
               LET r2 == resolve_file(t2, call.rel_path, call.listing)
               IN  /\ (ret.kind = "ok" /\ r2.kind = "ok")
                          => Rank(r2) >= Rank(ret)
                   /\ (ret.kind = "ok" /\ ret.tree = "live") => r2 = ret
                   /\ (ret.kind = "notfound" /\ ~LiveIsFile(CallName))
                          => r2.kind = "notfound"

\* C5 witness: an archived version is returned at t, a newer archived version
\* at a later timestamp and the live version at a still later one.
C5_Witness ==
    /\ ResolveCall /\ ret.kind = "ok" /\ ret.tree = "archive"
    /\ \E t2, t3 \in Times :
           /\ call.timestamp < t2 /\ t2 < t3
           /\ LET r2 == resolve_file(t2, call.rel_path, call.listing)
                  r3 == resolve_file(t3, call.rel_path, call.listing)
              IN  /\ r2.kind = "ok" /\ r2.tree = "archive"
                  /\ r2.name # ret.name /\ Rank(r2) > Rank(ret)
                  /\ r3.kind = "ok" /\ r3.tree = "live"

\* C6: a name that is a directory in neither tree is in the listing of its
\* directory at t exactly when resolve_file returns a version of it at t.
C6_ListingMatchesResolution ==
    ReaddirCall
        => \A n \in Names :
               (live[n].kind # "dir" /\ arch[n].kind # "dir")
                   => (n \in ret.files \cup ret.dirs
                          <=> resolve_file(call.timestamp, join(reldir, n),
                                           call.listing).kind = "ok")

\* C7: resolve_file raises only EINVAL for a malformed path, ENOENT for a
\* missing root and ENOTDIR for a root that is not a directory; with a root
\* directory and a well-formed path it returns a version or None.
C7_OnlyContractErrors ==
    call.op = "resolve_file"
        => /\ ret.kind = "raise" => ret.err \in {"EINVAL", "ENOENT", "ENOTDIR"}
           /\ (root = "dir" /\ WellFormed(call.rel_path))
                  => ret.kind \in {"ok", "notfound"}

\* C8: readdir lists every child of the archive mirror that is not a regular
\* file under the name it has on disk.
C8_ArchiveDirsUndecoded ==
    (ReaddirCall /\ ArchIsDir(reldir))
        => \A x \in ArchNames :
               arch[x].kind # "file" => x \in ret.files \cup ret.dirs

\* A numeric token, integer or decimal: an optional minus sign, then digits
\* with at most one '.' among or around them.
IsNumericToken(tok) ==
    LET body == IF startswith(tok, "-") THEN SubSeq(tok, 2, Len(tok)) ELSE tok
    IN  /\ \A i \in DOMAIN body : body[i] \in Digits \cup {"."}
        /\ Cardinality({i \in DOMAIN body : body[i] = "."}) <= 1
        /\ \E i \in DOMAIN body : body[i] \in Digits

\* A numeric token that denotes a number below zero.
IsNegativeToken(tok) ==
    /\ IsNumericToken(tok)
    /\ startswith(tok, "-")
    /\ \E i \in DOMAIN tok : tok[i] \in Digits \ {"0"}

\* The digits of a numeric token before its '.', as a number.
IntegerPart(tok) ==
    LET body == IF startswith(tok, "-") THEN SubSeq(tok, 2, Len(tok)) ELSE tok
        digits == {i \in DOMAIN body : \A j \in 1 .. i : body[j] \in Digits}
    IN  Number(SubSeq(body, 1, Cardinality(digits)))

\* The first segment of a virtual path and what follows its second '/'.
TokenOf(path) ==
    IF find(path, "/", 2) = 0 THEN SubSeq(path, 2, Len(path))
    ELSE SubSeq(path, 2, find(path, "/", 2) - 1)
RestOf(path) ==
    IF find(path, "/", 2) = 0 THEN <<>>
    ELSE SubSeq(path, find(path, "/", 2) + 1, Len(path))

\* A number in scientific notation, as float() reads one: whether it
\* counts as "integer or decimal" is left open, so for such a token only
\* the absence of an exception is asked.
IsScientificToken(tok) ==
    find(Lowered(tok), "e", 1) # 0 /\ IsDecimal(Unsigned(Lowered(tok)))

\* The paths the parser is to accept.
Acceptable(path) ==
    /\ startswith(path, "/")
    /\ ~endswith(path, "/")
    /\ IsNumericToken(TokenOf(path))
    /\ ~IsNegativeToken(TokenOf(path))
    /\ ~startswith(RestOf(path), "/")

\* C9: the parser never raises; it accepts exactly the paths that start with
\* '/', do not end with one, have a non-negative numeric first segment and a
\* remainder that does not begin with '/', returning the truncated number
\* and the remainder, and returns (-1, '') on every other path. Tokens in
\* scientific notation are held to the first part only.
C9_ParserTotal ==
    call.op = "get_timestamp_and_rel_path"
        => /\ ret.kind # "raise"
           /\ \/ IsScientificToken(TokenOf(call.fuse_path))
              \/ IF Acceptable(call.fuse_path)
                 THEN ret = Parsed(IntegerPart(TokenOf(call.fuse_path)),
                                   RestOf(call.fuse_path))
                 ELSE ret = error_result

\* A flag word that asks for writing, appending, creating or truncating.
IsWriteOpenFlag(flags) ==
    \E x \in {"O_WRONLY", "O_RDWR", "O_APPEND", "O_CREAT", "O_TRUNC"} : x \in flags

\* The adapter's write-path operations.
WriteOps ==
    {"chmod", "chown", "mknod", "rmdir", "mkdir", "unlink", "symlink", "rename",
     "link", "utimens", "create", "write", "truncate"}

\* The operations of the adapter.
AdapterOps ==
    WriteOps \cup {"open", "read", "fuse_readdir", "getattr", "access", "flush",
                   "release", "fsync", "readlink", "statfs"}

\* C10: every write-path operation and every open with a write, append,
\* create or truncate flag is rejected with an error; no handle is ever open
\* with such a flag; and no adapter operation changes the live tree or the
\* archive tree.
C10_ReadOnly ==
    /\ [](/\ call.op \in WriteOps => ret.kind = "raise"
          /\ (call.op = "open" /\ IsWriteOpenFlag(call.flags)) => ret.kind = "raise"
          /\ \A h \in handles : ~IsWriteOpenFlag(h.flags))
    /\ [][call'.op \in AdapterOps => disk' = disk]_vars

\* C10 witness: a file of the mounted tree is open read-only and a write
\* operation has just been rejected.
C10_Witness ==
    /\ handles # {}
    /\ call.op = "write" /\ ret.kind = "raise"
    /\ \E n \in Names : live[n].kind = "file"

\* The parsed form of the virtual path of the adapter call.
CallParsed == get_timestamp_and_rel_path(call.fuse_path)

\* The adapter call's virtual path parses to a well-formed relative path for
\* which resolve_file reports NotFound.
CallNotFound ==
    /\ CallParsed.kind = "parsed"
    /\ CallParsed # error_result
    /\ WellFormed(CallParsed.name)
    /\ \E listing \in Listings(ArchNames) :
         resolve_file(CallParsed.ts, CallParsed.name, listing) = NotFound

\* C11: when resolve_file reports NotFound for a well-formed path, open
\* fails with ENOENT and getattr returns the attributes of the root
\* directory; neither ends in any other kind of failure.
C11_NotFoundTranslated ==
    /\ (call.op = "open" /\ ~IsWriteOpenFlag(call.flags) /\ CallNotFound)
           => ret = Raise("ENOENT")
    /\ (call.op = "getattr" /\ CallNotFound) => ret = Attrs("root", <<>>)

\* C12: on a virtual path the parser rejects with the error result, open,
\* readdir and getattr each end in an error; none returns a handle, a
\* listing or attributes.
C12_RejectedPathNotServed ==
    (/\ call.op \in {"open", "fuse_readdir", "getattr"}
     /\ CallParsed = error_result)
        => ret.kind = "raise"

====
